---- MODULE Spec2Model ----
(***************************************************************************)
(* Revit Parameter Explorer: the page's readiness poller                   *)
(* (handleModelViewSelect), the allProperties route with its tree/property *)
(* merge (attachProperties), and the sidebar's lazy navigation tree        *)
(* (toggleNode / handleNodeClick).                                         *)
(*                                                                         *)
(* Conventions.  A JavaScript string that the code takes apart (a URN) is  *)
(* a sequence of one-character strings.  null is the value NoError for the *)
(* error message; an absent optional field is Absent (properties), the     *)
(* empty sequence (children, objects) or FALSE (isOpen, isLoading): the    *)
(* code reads those fields only through their truthiness or length.        *)
(***************************************************************************)
EXTENDS Integers, Sequences, FiniteSets, TLC

VARIABLES
    \* ---- page.tsx: React state of Home
    isLoading,          \* useState(false)
    error,              \* useState<string | null>(null)
    properties,         \* useState<PropertiesDataCollection[]>([])
    objectTree,         \* useState<ObjectTreeData[]>([])
    selectedVersionId,  \* useState<string | null>(null)
    \* ---- page.tsx: the running invocations of handleModelViewSelect
    cycles,             \* slot -> locals and position of one invocation
    latest,             \* slot of the most recent invocation, 0 before the first
    \* ---- allProperties route, exercised on its own
    mProps,             \* what getAllProperties returns (collection)
    mTree,              \* what getObjectTree returns (objects)
    mCall,              \* what the route's collaborators did on the request
    mRes,               \* the route's answer to the request
    \* ---- projectSidebar.tsx: React state of Sidebar
    tree,               \* useState<TreeNode[]>([])
    loading,            \* useState(true)
    \* ---- projectSidebar.tsx: the invocations of toggleNode awaiting their fetch,
    \* each with the tree its closure captured
    pending,
    \* ---- projectSidebar.tsx: what the sidebar did so far
    nClicks,            \* clicks handled
    nFetches,           \* children fetches issued
    firstKids,          \* node id -> ids of the children its first successful fetch gave
    viewCalls,          \* the calls of onViewSelected, in order
    \* ---- the URN escaping of page.tsx and route.ts, exercised on its own
    urnTrail,           \* a URN and what the escaping made of it, step by step
    \* ---- auth.ts: getAuthTokens, exercised on its own
    cookieStore,        \* cookie name -> [present, value]
    authRes             \* what the call of getAuthTokens did

pollVars  == <<isLoading, error, properties, objectTree, selectedVersionId, cycles, latest>>
mergeVars == <<mProps, mTree, mCall, mRes>>
navVars   == <<tree, loading, pending, nClicks, nFetches, firstKids, viewCalls>>
urnVars   == <<urnTrail>>
authVars  == <<cookieStore, authRes>>
vars      == <<isLoading, error, properties, objectTree, selectedVersionId, cycles, latest,
               mProps, mTree, mCall, mRes,
               tree, loading, pending, nClicks, nFetches, firstKids, viewCalls,
               urnTrail, cookieStore, authRes>>

(***************************************************************************)
(* Bounds of the model                                                     *)
(***************************************************************************)
\* invocations of handleModelViewSelect that may be in flight together
MaxCycles == 2
\* "still processing" answers one cycle gets when cycles run concurrently
MaxProcessing == 2
\* clicks on the navigation tree in one session
MaxClicks == 5
\* clicks in a session that starts with the versions of an item on screen
MaxVersionClicks == 3
\* children fetches of the navigation tree in flight together
MaxPending == 2
\* nodes of an object tree handed to the merge
MaxNodes == 3
\* records of a property list handed to the merge
MaxProps == 2
\* characters of a URN handed to the escaping
MaxUrnLen == 5
\* characters of the expires_at cookie
MaxCookieLen == 2

(***************************************************************************)
(* Program constants                                                       *)
(***************************************************************************)
maxAttempts == 150

NoError == "<null>"
Absent  == "<absent>"
TimeoutMsg == "Timeout: Model data is taking too long to load. Please try again later."

\* `Failed to load model data (${res.status}: ${res.statusText})`
FailedMsg(status) ==
    CASE status = 401 -> "Failed to load model data (401: Unauthorized)"
      [] status = 404 -> "Failed to load model data (404: Not Found)"
      [] status = 500 -> "Failed to load model data (500: Internal Server Error)"
      [] OTHER        -> "Failed to load model data"
\* the message of the TypeError a rejected fetch throws
RejectMsg == "Failed to fetch"

(***************************************************************************)
(* String.prototype.replace with a string pattern: the FIRST occurrence    *)
(***************************************************************************)
IsPrefixAt(s, pat, i) ==
    /\ i + Len(pat) - 1 <= Len(s)
    /\ \A k \in 1..Len(pat) : s[i + k - 1] = pat[k]

IndexOf(s, pat) ==
    LET hits == {i \in 1..Len(s) : IsPrefixAt(s, pat, i)}
    IN  IF hits = {} THEN 0 ELSE CHOOSE i \in hits : \A j \in hits : i <= j

replace(s, pat, rep) ==
    LET i == IndexOf(s, pat)
    IN  IF i = 0 THEN s
        ELSE SubSeq(s, 1, i - 1) \o rep \o SubSeq(s, i + Len(pat), Len(s))

Slash   == <<"/">>
Pct2F   == <<"%", "2", "F">>

\* page.tsx: itemUrn.replace("/", "%2F")
encodeUrn(urn) == replace(urn, Slash, Pct2F)
\* route.ts: version_id.replace("%2F", "/")
decodeUrn(version_id) == replace(version_id, Pct2F, Slash)

(***************************************************************************)
(* allProperties route: propertiesMap, attachProperties, GET               *)
(***************************************************************************)
\* Map.prototype.set
MapSet(m, k, v) == [x \in (DOMAIN m) \cup {k} |-> IF x = k THEN v ELSE m[x]]

RECURSIVE MapFromFirst(_, _, _)
MapFromFirst(m, props, i) ==
    IF i > Len(props) THEN m
    ELSE MapFromFirst(IF props[i].objectid \in DOMAIN m THEN m
                      ELSE MapSet(m, props[i].objectid, props[i]), props, i + 1)

RECURSIVE MapFrom(_, _, _)
MapFrom(m, props, i) ==
    IF i > Len(props) THEN m
    ELSE MapFrom(MapSet(m, props[i].objectid, props[i]), props, i + 1)

EmptyMap == [x \in {} |-> 0]

propertiesMap_firstWins(props) == MapFromFirst(EmptyMap, props, 1)

\* allProperties.properties.forEach((prop) => propertiesMap.set(prop.objectid, prop))
propertiesMap(props) == MapFrom(EmptyMap, props, 1)

RECURSIVE attachProperties_prune(_, _)
attachProperties_prune(pmap, objects) ==
    [i \in 1..Len(objects) |->
        LET object == objects[i]
        IN  IF object.objectid \in DOMAIN pmap
            THEN [object EXCEPT !.properties = pmap[object.objectid].properties,
                                !.objects = attachProperties_prune(pmap, object.objects)]
            ELSE [object EXCEPT !.objects = << >>]]

RECURSIVE attachProperties_noDescend(_, _)
attachProperties_noDescend(pmap, objects) ==
    [i \in 1..Len(objects) |->
        LET object == objects[i]
        IN  IF object.objectid \in DOMAIN pmap
            THEN [object EXCEPT !.properties = pmap[object.objectid].properties]
            ELSE [object EXCEPT !.objects = attachProperties_noDescend(pmap, object.objects)]]

RECURSIVE attachProperties(_, _)
attachProperties(pmap, objects) ==
    [i \in 1..Len(objects) |->
        LET object == objects[i]
            withProps == IF object.objectid \in DOMAIN pmap
                         THEN [object EXCEPT !.properties = pmap[object.objectid].properties]
                         ELSE object
        IN  [withProps EXCEPT !.objects = attachProperties(pmap, object.objects)]]

\* what the gateway functions of lib/services/aps.ts hand to the route
ApThrows      == [throws |-> TRUE,  isProcessing |-> FALSE, properties |-> <<>>]
ApProcessing  == [throws |-> FALSE, isProcessing |-> TRUE,  properties |-> <<>>]
ApReady(coll) == [throws |-> FALSE, isProcessing |-> FALSE, properties |-> coll]
OtThrows      == [throws |-> TRUE,  objects |-> <<>>]
OtReady(objs) == [throws |-> FALSE, objects |-> objs]

RouteRes(status, isProcessing, props, enriched, treeCalls) ==
    [status |-> status, isProcessing |-> isProcessing, properties |-> props,
     objectTreeWithProperties |-> enriched, treeCalls |-> treeCalls]

NoResponse == RouteRes(0, FALSE, <<>>, <<>>, 0)

GET_emptyIsError(tokens, allProperties, objTree) ==
    IF ~tokens THEN RouteRes(401, FALSE, <<>>, <<>>, 0)
    ELSE IF allProperties.throws THEN RouteRes(500, FALSE, <<>>, <<>>, 0)
    ELSE IF ~allProperties.isProcessing
         THEN IF objTree.throws \/ objTree.objects = <<>> \/ allProperties.properties = <<>>
              THEN RouteRes(500, FALSE, <<>>, <<>>, 1)
              ELSE RouteRes(200, FALSE, allProperties.properties,
                            attachProperties(propertiesMap(allProperties.properties),
                                             objTree.objects), 1)
         ELSE RouteRes(200, TRUE, <<>>, <<>>, 0)

GET_treeEveryPoll(tokens, allProperties, objTree) ==
    IF ~tokens THEN RouteRes(401, FALSE, <<>>, <<>>, 0)
    ELSE IF allProperties.throws THEN RouteRes(500, FALSE, <<>>, <<>>, 0)
    ELSE IF objTree.throws THEN RouteRes(500, FALSE, <<>>, <<>>, 1)
    ELSE IF ~allProperties.isProcessing
         THEN RouteRes(200, FALSE, allProperties.properties,
                       attachProperties(propertiesMap(allProperties.properties),
                                        objTree.objects), 1)
         ELSE RouteRes(200, TRUE, <<>>, <<>>, 1)

\* GET of the allProperties route.  tokens: getAuthTokens() returned tokens;
\* allProperties, objTree: what the two gateway calls do when made.
\* treeCalls counts the getObjectTree calls the handler made.
GET(tokens, allProperties, objTree) ==
    IF ~tokens THEN RouteRes(401, FALSE, <<>>, <<>>, 0)
    ELSE IF allProperties.throws THEN RouteRes(500, FALSE, <<>>, <<>>, 0)
    ELSE IF ~allProperties.isProcessing
         THEN IF objTree.throws THEN RouteRes(500, FALSE, <<>>, <<>>, 1)
              ELSE RouteRes(200, FALSE, allProperties.properties,
                            attachProperties(propertiesMap(allProperties.properties),
                                             objTree.objects), 1)
         ELSE RouteRes(200, TRUE, <<>>, <<>>, 0)

(***************************************************************************)
(* The models the gateway knows in the poller's specifications: two views  *)
(* of two versions.                                                        *)
(***************************************************************************)
Urn1 == <<"d", "X", "/", "a">>
Urn2 == <<"d", "/", "b">>

Selections == { [viewGuid |-> "g1", itemUrn |-> Urn1],
                [viewGuid |-> "g2", itemUrn |-> Urn2] }

\* the URN of the second version the sidebar lists; its model has the view g1
Urn3 == <<"d", "X", "J", "b">>

Node(id, name, objs) == [objectid |-> id, name |-> name, objects |-> objs, properties |-> Absent]

\* resp.data.collection of getAllProperties once the derivation is complete
GatewayCollection(urn, guid) ==
    IF urn = Urn1 /\ guid = "g1"
    THEN << [objectid |-> 2, name |-> "Door", properties |-> "Dims-36"] >>
    ELSE IF urn = Urn2 /\ guid = "g2"
    THEN << [objectid |-> 1, name |-> "Roof", properties |-> "Area-9"],
            [objectid |-> 3, name |-> "Beam", properties |-> "Len-4"] >>
    ELSE IF urn = Urn3 /\ guid = "g1"
    THEN << [objectid |-> 4, name |-> "Slab", properties |-> "Vol-2"] >>
    ELSE << >>

\* resp.data.objects of getObjectTree
GatewayObjects(urn, guid) ==
    IF urn = Urn1 /\ guid = "g1"
    THEN << Node(1, "Wall", << Node(2, "Door", <<>>) >>) >>
    ELSE IF urn = Urn2 /\ guid = "g2"
    THEN << Node(1, "Roof", <<>>), Node(3, "Beam", <<>>) >>
    ELSE IF urn = Urn3 /\ guid = "g1"
    THEN << Node(4, "Slab", <<>>) >>
    ELSE << >>

\* the gateway rejects a URN it does not know
GatewayKnows(urn, guid) ==
    \E sel \in Selections \cup {[viewGuid |-> "g1", itemUrn |-> Urn3]} :
        sel.itemUrn = urn /\ sel.viewGuid = guid

(***************************************************************************)
(* page.tsx: handleModelViewSelect, one invocation per slot of cycles      *)
(***************************************************************************)
InFlight == {"fetching", "sleeping"}
Ended    == {"success", "timeout", "transport"}
Slots    == 1..MaxCycles

\* attempts, viewGuid, encodedUrn: the invocation's locals; lastStatus: res.status
\* of the last response, 0 before the first; requests, processing, treeCalls:
\* the fetch calls made, the "processing" answers received and the
\* getObjectTree calls the route made for this invocation
IdleCycle == [pc |-> "idle", attempts |-> 0, lastStatus |-> 0, requests |-> 0,
              processing |-> 0, treeCalls |-> 0, viewGuid |-> "", encodedUrn |-> <<>>]

Active(c) == cycles[c].pc \in InFlight

handleModelViewSelect_keepsError(c, sel) ==
    /\ ~Active(c)
    /\ isLoading' = TRUE
    /\ selectedVersionId' = encodeUrn(sel.itemUrn)
    /\ cycles' = [cycles EXCEPT ![c] =
                    [pc |-> "fetching", attempts |-> 0, lastStatus |-> 0, requests |-> 1,
                     processing |-> 0, treeCalls |-> 0, viewGuid |-> sel.viewGuid,
                     encodedUrn |-> encodeUrn(sel.itemUrn)]]
    /\ latest' = c
    /\ UNCHANGED <<error, properties, objectTree>>

\* lines 162-174: the state updates, the first loop test and the first fetch.
\* c is the slot that holds the new invocation: one no running invocation uses
handleModelViewSelect(c, sel) ==
    /\ ~Active(c)
    /\ isLoading' = TRUE
    /\ error' = NoError
    /\ selectedVersionId' = encodeUrn(sel.itemUrn)
    /\ cycles' = [cycles EXCEPT ![c] =
                    [pc |-> "fetching", attempts |-> 0, lastStatus |-> 0, requests |-> 1,
                     processing |-> 0, treeCalls |-> 0, viewGuid |-> sel.viewGuid,
                     encodedUrn |-> encodeUrn(sel.itemUrn)]]
    /\ latest' = c
    /\ UNCHANGED <<properties, objectTree>>

\* what the route answers to the request of cycle c.  tokens: getAuthTokens
\* found tokens; apMode: "throws" | "processing" | "ready", what the
\* derivation service does; otThrows: getObjectTree throws
RouteAnswer(c, tokens, apMode, otThrows) ==
    LET decodedVersionId == decodeUrn(cycles[c].encodedUrn)
        known == GatewayKnows(decodedVersionId, cycles[c].viewGuid)
        ap == IF apMode = "throws" \/ ~known THEN ApThrows
              ELSE IF apMode = "processing" THEN ApProcessing
              ELSE ApReady(GatewayCollection(decodedVersionId, cycles[c].viewGuid))
        ot == IF otThrows THEN OtThrows
              ELSE OtReady(GatewayObjects(decodedVersionId, cycles[c].viewGuid))
    IN  GET(tokens, ap, ot)

fetchNotOk_retry(c, res) ==
    /\ cycles[c].pc = "fetching"
    /\ res.status # 200
    /\ cycles' = [cycles EXCEPT ![c].pc = "sleeping",
                                ![c].lastStatus = res.status,
                                ![c].treeCalls = @ + res.treeCalls]
    /\ UNCHANGED <<isLoading, error, properties, objectTree, selectedVersionId, latest>>

\* lines 174-178, 197-200: the response is not ok; the catch block runs
fetchNotOk(c, res) ==
    /\ cycles[c].pc = "fetching"
    /\ res.status # 200
    /\ error' = FailedMsg(res.status)
    /\ isLoading' = FALSE
    /\ cycles' = [cycles EXCEPT ![c].pc = "transport",
                                ![c].lastStatus = res.status,
                                ![c].treeCalls = @ + res.treeCalls]
    /\ UNCHANGED <<properties, objectTree, selectedVersionId, latest>>

\* line 174, 197-200: fetch itself rejects (no response); the catch block runs
fetchRejects(c) ==
    /\ cycles[c].pc = "fetching"
    /\ error' = RejectMsg
    /\ isLoading' = FALSE
    /\ cycles' = [cycles EXCEPT ![c].pc = "transport"]
    /\ UNCHANGED <<properties, objectTree, selectedVersionId, latest>>

fetchReady_propertiesOnly(c, res) ==
    /\ cycles[c].pc = "fetching"
    /\ res.status = 200 /\ ~res.isProcessing
    /\ properties' = res.properties
    /\ isLoading' = FALSE
    /\ cycles' = [cycles EXCEPT ![c].pc = "success",
                                ![c].lastStatus = res.status,
                                ![c].treeCalls = @ + res.treeCalls]
    /\ UNCHANGED <<objectTree, error, selectedVersionId, latest>>

fetchReady_keepLoading(c, res) ==
    /\ cycles[c].pc = "fetching"
    /\ res.status = 200 /\ ~res.isProcessing
    /\ properties' = res.properties
    /\ objectTree' = res.objectTreeWithProperties
    /\ cycles' = [cycles EXCEPT ![c].pc = "success",
                                ![c].lastStatus = res.status,
                                ![c].treeCalls = @ + res.treeCalls]
    /\ UNCHANGED <<isLoading, error, selectedVersionId, latest>>

\* lines 180-188: the response is ok and says processing is complete
fetchReady(c, res) ==
    /\ cycles[c].pc = "fetching"
    /\ res.status = 200 /\ ~res.isProcessing
    /\ properties' = res.properties
    /\ objectTree' = res.objectTreeWithProperties
    /\ isLoading' = FALSE
    /\ cycles' = [cycles EXCEPT ![c].pc = "success",
                                ![c].lastStatus = res.status,
                                ![c].treeCalls = @ + res.treeCalls]
    /\ UNCHANGED <<error, selectedVersionId, latest>>

\* lines 180-191: the response is ok and says still processing; the timer starts
fetchProcessing(c, res) ==
    /\ cycles[c].pc = "fetching"
    /\ res.status = 200 /\ res.isProcessing
    /\ cycles' = [cycles EXCEPT ![c].pc = "sleeping",
                                ![c].lastStatus = res.status,
                                ![c].processing = @ + 1,
                                ![c].treeCalls = @ + res.treeCalls]
    /\ UNCHANGED <<isLoading, error, properties, objectTree, selectedVersionId, latest>>

timerFires_noCount(c) ==
    /\ cycles[c].pc = "sleeping"
    /\ LET attempts == cycles[c].attempts
       IN  IF attempts < maxAttempts
           THEN /\ cycles' = [cycles EXCEPT ![c].pc = "fetching",
                                            ![c].attempts = attempts,
                                            ![c].requests = @ + 1]
                /\ UNCHANGED <<isLoading, error>>
           ELSE /\ cycles' = [cycles EXCEPT ![c].pc = "timeout",
                                            ![c].attempts = attempts]
                /\ error' = TimeoutMsg
                /\ isLoading' = FALSE
    /\ UNCHANGED <<properties, objectTree, selectedVersionId, latest>>

timerFires_offByOne(c) ==
    /\ cycles[c].pc = "sleeping"
    /\ LET attempts == cycles[c].attempts + 1
       IN  IF attempts <= maxAttempts
           THEN /\ cycles' = [cycles EXCEPT ![c].pc = "fetching",
                                            ![c].attempts = attempts,
                                            ![c].requests = @ + 1]
                /\ UNCHANGED <<isLoading, error>>
           ELSE /\ cycles' = [cycles EXCEPT ![c].pc = "timeout",
                                            ![c].attempts = attempts]
                /\ error' = TimeoutMsg
                /\ isLoading' = FALSE
    /\ UNCHANGED <<properties, objectTree, selectedVersionId, latest>>

\* lines 191-200: the 1 s timer fires, attempts++, the loop test; then either
\* the next fetch or the timeout error and the catch block
timerFires(c) ==
    /\ cycles[c].pc = "sleeping"
    /\ LET attempts == cycles[c].attempts + 1
       IN  IF attempts < maxAttempts
           THEN /\ cycles' = [cycles EXCEPT ![c].pc = "fetching",
                                            ![c].attempts = attempts,
                                            ![c].requests = @ + 1]
                /\ UNCHANGED <<isLoading, error>>
           ELSE /\ cycles' = [cycles EXCEPT ![c].pc = "timeout",
                                            ![c].attempts = attempts]
                /\ error' = TimeoutMsg
                /\ isLoading' = FALSE
    /\ UNCHANGED <<properties, objectTree, selectedVersionId, latest>>

\* line 295: the Dismiss button, rendered when !isLoading && error
dismiss ==
    /\ ~isLoading
    /\ error # NoError
    /\ error' = NoError
    /\ UNCHANGED <<isLoading, properties, objectTree, selectedVersionId, cycles, latest>>

(***************************************************************************)
(* Spec: a UI session in which views are selected at any time, also while  *)
(* earlier cycles are in flight.  A new invocation takes the first slot    *)
(* that was never used.                                                    *)
(***************************************************************************)
InitPage ==
    /\ isLoading = FALSE
    /\ error = NoError
    /\ properties = <<>>
    /\ objectTree = <<>>
    /\ selectedVersionId = <<>>
    /\ cycles = [c \in Slots |-> IdleCycle]
    /\ latest = 0

NoCall == [tokens |-> FALSE, apMode |-> "none", otThrows |-> FALSE]

InitMergeIdle ==
    /\ mProps = <<>>
    /\ mTree = <<>>
    /\ mCall = NoCall
    /\ mRes = NoResponse

InitNavIdle ==
    /\ tree = <<>>
    /\ loading = TRUE
    /\ pending = <<>>
    /\ nClicks = 0
    /\ nFetches = 0
    /\ firstKids = EmptyMap
    /\ viewCalls = <<>>

InitUrnIdle == urnTrail = << >>

\* a cookie the store does not have
NoCookie == [present |-> FALSE, value |-> << >>]
NoToken == [access_token |-> << >>, expires_in |-> 0]
NotCalled == [kind |-> "none", internalToken |-> NoToken, publicToken |-> NoToken]

InitAuthIdle ==
    /\ cookieStore = [name \in {"refresh_token", "expires_at", "internal_token", "public_token"}
                         |-> NoCookie]
    /\ authRes = NotCalled

Init == InitPage /\ InitMergeIdle /\ InitNavIdle /\ InitUrnIdle /\ InitAuthIdle

ApModes == {"throws", "processing", "ready"}

\* the page's handler invoked with a selection; the sidebar that makes the call
\* is left out of Spec and SpecPoll (in SpecNav the call is part of the click)
Select ==
    \E sel \in Selections :
        /\ latest < MaxCycles
        /\ handleModelViewSelect(latest + 1, sel)
        /\ UNCHANGED mergeVars /\ UNCHANGED navVars /\ UNCHANGED urnVars /\ UNCHANGED authVars

NotOk ==
    \E c \in Slots, tokens \in BOOLEAN, apMode \in ApModes, otThrows \in BOOLEAN :
        /\ cycles[c].pc = "fetching"
        /\ fetchNotOk(c, RouteAnswer(c, tokens, apMode, otThrows))
        /\ UNCHANGED mergeVars /\ UNCHANGED navVars /\ UNCHANGED urnVars /\ UNCHANGED authVars

Rejects == \E c \in Slots : fetchRejects(c) /\ UNCHANGED mergeVars /\ UNCHANGED navVars
    /\ UNCHANGED urnVars /\ UNCHANGED authVars

Ready ==
    \E c \in Slots :
        /\ cycles[c].pc = "fetching"
        /\ fetchReady(c, RouteAnswer(c, TRUE, "ready", FALSE))
        /\ UNCHANGED mergeVars /\ UNCHANGED navVars /\ UNCHANGED urnVars /\ UNCHANGED authVars

Processing ==
    \E c \in Slots :
        /\ cycles[c].pc = "fetching"
        /\ cycles[c].processing < MaxProcessing
        /\ fetchProcessing(c, RouteAnswer(c, TRUE, "processing", FALSE))
        /\ UNCHANGED mergeVars /\ UNCHANGED navVars /\ UNCHANGED urnVars /\ UNCHANGED authVars

Timer == \E c \in Slots : timerFires(c) /\ UNCHANGED mergeVars /\ UNCHANGED navVars
    /\ UNCHANGED urnVars /\ UNCHANGED authVars

Dismiss == dismiss /\ UNCHANGED mergeVars /\ UNCHANGED navVars
    /\ UNCHANGED urnVars /\ UNCHANGED authVars

Next == Select \/ NotOk \/ Rejects \/ Ready \/ Processing \/ Timer \/ Dismiss

Spec == Init /\ [][Next]_vars

(***************************************************************************)
(* SpecPoll: one cycle at a time (a view is selected only when no cycle is *)
(* in flight), with the derivation service free to answer "processing" on  *)
(* every request.  The one slot is reused by each invocation.              *)
(***************************************************************************)
SelectIdle ==
    \E sel \in Selections :
        /\ handleModelViewSelect(1, sel)
        /\ UNCHANGED mergeVars /\ UNCHANGED navVars /\ UNCHANGED urnVars /\ UNCHANGED authVars

NotOk1 ==
    \E tokens \in BOOLEAN, apMode \in ApModes, otThrows \in BOOLEAN :
        /\ cycles[1].pc = "fetching"
        /\ fetchNotOk(1, RouteAnswer(1, tokens, apMode, otThrows))
        /\ UNCHANGED mergeVars /\ UNCHANGED navVars /\ UNCHANGED urnVars /\ UNCHANGED authVars

Rejects1 == fetchRejects(1) /\ UNCHANGED mergeVars /\ UNCHANGED navVars
    /\ UNCHANGED urnVars /\ UNCHANGED authVars

Ready1 ==
    /\ cycles[1].pc = "fetching"
    /\ fetchReady(1, RouteAnswer(1, TRUE, "ready", FALSE))
    /\ UNCHANGED mergeVars /\ UNCHANGED navVars /\ UNCHANGED urnVars /\ UNCHANGED authVars

Processing1 ==
    /\ cycles[1].pc = "fetching"
    /\ fetchProcessing(1, RouteAnswer(1, TRUE, "processing", FALSE))
    /\ UNCHANGED mergeVars /\ UNCHANGED navVars /\ UNCHANGED urnVars /\ UNCHANGED authVars

Timer1 == timerFires(1) /\ UNCHANGED mergeVars /\ UNCHANGED navVars
    /\ UNCHANGED urnVars /\ UNCHANGED authVars

NextPoll == SelectIdle \/ NotOk1 \/ Rejects1 \/ Ready1 \/ Processing1 \/ Timer1 \/ Dismiss

SpecPoll == Init /\ [][NextPoll]_vars

\* SpecPollFair: SpecPoll in which every request is answered (the fetch
\* promise settles) and every 1 s timer fires.
Response1 == NotOk1 \/ Rejects1 \/ Ready1 \/ Processing1

SpecPollFair == Init /\ [][NextPoll]_vars /\ WF_vars(Response1) /\ WF_vars(Timer1)

(***************************************************************************)
(* SpecMerge: the allProperties route answers one request, for every       *)
(* object tree and property list within the bounds and everything its      *)
(* collaborators can do.                                                   *)
(***************************************************************************)
ObjectIds == {1, 2}
Payloads  == {"pA", "pB"}

\* the ordered forests of exactly n nodes
RECURSIVE ForestsOf(_)
ForestsOf(n) ==
    IF n = 0 THEN { <<>> }
    ELSE UNION { { <<Node(id, "obj", ch)>> \o rest :
                      id \in ObjectIds, ch \in ForestsOf(k - 1), rest \in ForestsOf(n - k) } :
                 k \in 1..n }

ObjectTrees == UNION { ForestsOf(n) : n \in 0..MaxNodes }

PropertyRecords == [objectid : ObjectIds, name : {"obj"}, properties : Payloads]

PropertyLists == UNION { [1..n -> PropertyRecords] : n \in 0..MaxProps }

InitMerge ==
    /\ InitPage
    /\ InitNavIdle
    /\ InitUrnIdle
    /\ InitAuthIdle
    /\ mProps \in PropertyLists
    /\ mTree \in ObjectTrees
    /\ mCall = NoCall
    /\ mRes = NoResponse

RouteGET ==
    \E tokens \in BOOLEAN, apMode \in ApModes, otThrows \in BOOLEAN :
        /\ mCall = NoCall
        /\ mCall' = [tokens |-> tokens, apMode |-> apMode, otThrows |-> otThrows]
        /\ mRes' = GET(tokens,
                       IF apMode = "throws" THEN ApThrows
                       ELSE IF apMode = "processing" THEN ApProcessing
                       ELSE ApReady(mProps),
                       IF otThrows THEN OtThrows ELSE OtReady(mTree))
        /\ UNCHANGED <<mProps, mTree>>
        /\ UNCHANGED pollVars /\ UNCHANGED navVars /\ UNCHANGED urnVars /\ UNCHANGED authVars

NextMerge == RouteGET

SpecMerge == InitMerge /\ [][NextMerge]_vars

(***************************************************************************)
(* projectSidebar.tsx: the lazy navigation tree.                           *)
(*                                                                         *)
(* A node id is the sequence of its "|"-separated parts, which is what     *)
(* nodeId.split("|") gives; the id "" of an error node is <<"">>.          *)
(* A TreeNode carries every field: an absent children is <<>>, an absent   *)
(* isOpen or isLoading is FALSE, an absent parent is <<>>.                 *)
(***************************************************************************)
TreeNode(id, name, type, parent) ==
    [id |-> id, name |-> name, type |-> type, children |-> <<>>,
     isOpen |-> FALSE, isLoading |-> FALSE, parent |-> parent]

\* ---- what the API routes answer in the sidebar's specification
ApiHubs == << [id |-> "h2", name |-> "Site"], [id |-> "h1", name |-> "Office"] >>

ApiProjects(hubId) ==
    IF hubId = "h1" THEN << [id |-> "p1", name |-> "Tower"] >> ELSE << >>

ApiContents(hubId, projectId, folderId) ==
    IF hubId = "h1" /\ projectId = "p1" /\ folderId = ""
    THEN << [id |-> "f1", name |-> "Plans", folder |-> TRUE],
            [id |-> "i1", name |-> "Model.rvt", folder |-> FALSE] >>
    ELSE << >>

ApiVersions(projectId, itemId) ==
    IF projectId = "p1" /\ itemId = "i1"
    THEN << [id |-> "v2", name |-> "2024-02-01"], [id |-> "v1", name |-> "2024-01-01"] >>
    ELSE << >>

\* btoa(version) of the two version ids
btoa(version) ==
    IF version = "v1" THEN <<"d", "X", "/", "a">>
    ELSE IF version = "v2" THEN Urn3
    ELSE << >>

\* getModelViews(versionUrn): the views of the model, each with urn: versionUrn
ApiViews(versionUrn) ==
    IF versionUrn = btoa("v1")
    THEN << [guid |-> "g2", name |-> "Sheet", role |-> "2d", urn |-> versionUrn],
            [guid |-> "g1", name |-> "{3D}", role |-> "3d", urn |-> versionUrn] >>
    ELSE IF versionUrn = btoa("v2")
    THEN << [guid |-> "g1", name |-> "{3D}", role |-> "3d", urn |-> versionUrn] >>
    ELSE << >>

\* String.prototype.localeCompare on the names above: their collation rank
NameRank(name) ==
    CASE name = "{3D}"       -> 1
      [] name = "2024-01-01" -> 2
      [] name = "2024-02-01" -> 3
      [] name = "Model.rvt"  -> 4
      [] name = "Office"     -> 5
      [] name = "Plans"      -> 6
      [] name = "Sheet"      -> 7
      [] name = "Site"       -> 8
      [] name = "Tower"      -> 9
      [] OTHER               -> 0

localeCompare(a, b) ==
    IF NameRank(a) < NameRank(b) THEN -1 ELSE IF NameRank(a) > NameRank(b) THEN 1 ELSE 0

\* insert node into the sorted sequence, after the nodes that compare equal
InsertByName(sorted, node) ==
    LET before == {i \in 1..Len(sorted) : localeCompare(sorted[i].name, node.name) <= 0}
        k == Cardinality(before)
    IN  SubSeq(sorted, 1, k) \o <<node>> \o SubSeq(sorted, k + 1, Len(sorted))

RECURSIVE SortFrom(_, _, _)
SortFrom(sorted, nodes, i) ==
    IF i > Len(nodes) THEN sorted ELSE SortFrom(InsertByName(sorted, nodes[i]), nodes, i + 1)

sortNodesByName_unsorted(nodes) == nodes

\* [...nodes].sort((a, b) => a.name.localeCompare(b.name)): a stable sort
sortNodesByName(nodes) == SortFrom(<<>>, nodes, 1)

\* { ...node, ...updates }
Merge(node, updates) ==
    [f \in DOMAIN node |-> IF f \in DOMAIN updates THEN updates[f] ELSE node[f]]

RECURSIVE updateNode(_, _, _)
updateNode(nodes, id, updates) ==
    [i \in 1..Len(nodes) |->
        LET node == nodes[i]
        IN  IF node.id = id THEN Merge(node, updates)
            ELSE [node EXCEPT !.children = updateNode(node.children, id, updates)]]

\* the node found, as a sequence of one node; <<>> for undefined
RECURSIVE findNode(_, _)
RECURSIVE FindFrom(_, _, _)
FindFrom(nodes, id, i) ==
    IF i > Len(nodes) THEN << >>
    ELSE IF nodes[i].id = id THEN << nodes[i] >>
    ELSE LET found == findNode(nodes[i].children, id)
         IN  IF found # << >> THEN found ELSE FindFrom(nodes, id, i + 1)

findNode(nodes, id) == FindFrom(nodes, id, 1)

\* the node at a path of child indexes
RECURSIVE NodeAt(_, _)
NodeAt(nodes, path) ==
    IF Len(path) = 1 THEN nodes[path[1]]
    ELSE NodeAt(nodes[path[1]].children, Tail(path))

\* renderTreeNode: the paths of the nodes on screen
RECURSIVE Rendered(_, _)
Rendered(nodes, prefix) ==
    UNION { {Append(prefix, i)} \cup
            (IF nodes[i].isOpen /\ Len(nodes[i].children) > 0
             THEN Rendered(nodes[i].children, Append(prefix, i)) ELSE {}) :
            i \in 1..Len(nodes) }

\* the node types whose case of the switch fetches
Fetching == {"hub", "project", "folder", "item", "version"}

\* lines 200-203: the version part of the request path
encodedVersion(version) == replace(btoa(version), Slash, Pct2F)

\* the region prop of the Sidebar
Region == "US"

Endpoint_folderAsProject(nodeId) ==
    LET nodeType == nodeId[1]
        NoUrn == << >>
    IN  CASE nodeType = "hub" ->
               [path |-> <<"api", "hubs", nodeId[2], "projects">>, urn |-> NoUrn]
          [] nodeType \in {"project", "folder"} ->
               [path |-> <<"api", "hubs", nodeId[2], "projects", nodeId[3], "contents">>,
                urn |-> NoUrn]
          [] nodeType = "item" ->
               [path |-> <<"api", "hubs", nodeId[2], "projects", nodeId[3], "contents",
                           nodeId[4], "versions">>, urn |-> NoUrn]
          [] nodeType = "version" ->
               [path |-> <<"api", "modelDerivate", Region, "views">>,
                urn |-> encodedVersion(nodeId[2])]
          [] OTHER -> [path |-> << >>, urn |-> NoUrn]

\* lines 135, 152, 170, 188, 204: the URL toggleNode fetches, by the node's
\* type: the parts of its path and query, and for a version the escaped URN
\* that stands between the region and "views"
Endpoint(nodeId) ==
    LET nodeType == nodeId[1]
        NoUrn == << >>
    IN  CASE nodeType = "hub" ->
               [path |-> <<"api", "hubs", nodeId[2], "projects">>, urn |-> NoUrn]
          [] nodeType = "project" ->
               [path |-> <<"api", "hubs", nodeId[2], "projects", nodeId[3], "contents">>,
                urn |-> NoUrn]
          [] nodeType = "folder" ->
               [path |-> <<"api", "hubs", nodeId[2], "projects", nodeId[3], "contents",
                           "?folder_id=", nodeId[4]>>, urn |-> NoUrn]
          [] nodeType = "item" ->
               [path |-> <<"api", "hubs", nodeId[2], "projects", nodeId[3], "contents",
                           nodeId[4], "versions">>, urn |-> NoUrn]
          [] nodeType = "version" ->
               [path |-> <<"api", "modelDerivate", Region, "views">>,
                urn |-> encodedVersion(nodeId[2])]
          [] OTHER -> [path |-> << >>, urn |-> NoUrn]

ChildrenOf_allRoles(nodeId) ==
    LET nodeType == nodeId[1]
        MapSeq(entries, F(_)) == [i \in 1..Len(entries) |-> F(entries[i])]
        ProjectNode(project) ==
            TreeNode(<<"project", nodeId[2], project.id>>, project.name, "project", <<>>)
        ContentNode(content) ==
            TreeNode(<<IF content.folder THEN "folder" ELSE "item", nodeId[2], nodeId[3], content.id>>,
                     content.name, IF content.folder THEN "folder" ELSE "item", <<>>)
        VersionNode(version) == TreeNode(<<"version", version.id>>, version.name, "version", <<>>)
        ViewNode(view) == TreeNode(<<"view", view.guid>>, view.name, "view", view.urn)
        views == ApiViews(decodeUrn(encodedVersion(nodeId[2])))
    IN  CASE nodeType = "hub" ->
               sortNodesByName(MapSeq(ApiProjects(nodeId[2]), ProjectNode))
          [] nodeType = "project" ->
               sortNodesByName(MapSeq(ApiContents(nodeId[2], nodeId[3], ""), ContentNode))
          [] nodeType = "folder" ->
               sortNodesByName(MapSeq(ApiContents(nodeId[2], nodeId[3], nodeId[4]), ContentNode))
          [] nodeType = "item" ->
               sortNodesByName(MapSeq(ApiVersions(nodeId[3], nodeId[4]), VersionNode))
          [] nodeType = "version" ->
               sortNodesByName(MapSeq(views, ViewNode))
          [] OTHER -> << >>

\* the children toggleNode builds from an ok response, by the node's type
ChildrenOf(nodeId) ==
    LET nodeType == nodeId[1]
        MapSeq(entries, F(_)) == [i \in 1..Len(entries) |-> F(entries[i])]
        ProjectNode(project) ==
            TreeNode(<<"project", nodeId[2], project.id>>, project.name, "project", <<>>)
        ContentNode(content) ==
            TreeNode(<<IF content.folder THEN "folder" ELSE "item", nodeId[2], nodeId[3], content.id>>,
                     content.name, IF content.folder THEN "folder" ELSE "item", <<>>)
        VersionNode(version) == TreeNode(<<"version", version.id>>, version.name, "version", <<>>)
        ViewNode(view) == TreeNode(<<"view", view.guid>>, view.name, "view", view.urn)
        views == ApiViews(decodeUrn(encodedVersion(nodeId[2])))
    IN  CASE nodeType = "hub" ->
               sortNodesByName(MapSeq(ApiProjects(nodeId[2]), ProjectNode))
          [] nodeType = "project" ->
               sortNodesByName(MapSeq(ApiContents(nodeId[2], nodeId[3], ""), ContentNode))
          [] nodeType = "folder" ->
               sortNodesByName(MapSeq(ApiContents(nodeId[2], nodeId[3], nodeId[4]), ContentNode))
          [] nodeType = "item" ->
               sortNodesByName(MapSeq(ApiVersions(nodeId[3], nodeId[4]), VersionNode))
          [] nodeType = "version" ->
               sortNodesByName(MapSeq(SelectSeq(views, LAMBDA view : view.role = "3d"), ViewNode))
          [] OTHER -> << >>

ErrorChildren == << TreeNode(<<"">>, "Error: No views found", "error", <<>>) >>

IdsOf(nodes) == [i \in 1..Len(nodes) |-> nodes[i].id]

RemoveAt(seq, k) == SubSeq(seq, 1, k - 1) \o SubSeq(seq, k + 1, Len(seq))

\* lines 43-61: the hubs arrive after mount
fetchHubsOk ==
    /\ loading
    /\ tree' = sortNodesByName([i \in 1..Len(ApiHubs) |->
                  TreeNode(<<"hub", ApiHubs[i].id>>, ApiHubs[i].name, "hub", <<>>)])
    /\ loading' = FALSE
    /\ UNCHANGED <<pending, nClicks, nFetches, firstKids, viewCalls>>

\* lines 47, 62-66: the hubs request fails
fetchHubsFails ==
    /\ loading
    /\ loading' = FALSE
    /\ UNCHANGED <<tree, pending, nClicks, nFetches, firstKids, viewCalls>>

\* lines 76-136, 245-248: toggleNode up to its first await, or to its end when
\* it does not fetch
toggleNode(nodeId) ==
    LET found == findNode(tree, nodeId)
        node == found[1]
    IN  IF found = << >> THEN UNCHANGED <<tree, pending, nFetches>>
        ELSE IF node.isOpen
        THEN /\ tree' = updateNode(tree, nodeId, [isOpen |-> FALSE])
             /\ UNCHANGED <<pending, nFetches>>
        ELSE IF Len(node.children) = 0
        THEN IF nodeId[1] \in Fetching
             THEN /\ tree' = updateNode(tree, nodeId, [isLoading |-> TRUE])
                  /\ pending' = Append(pending, [nodeId |-> nodeId, snap |-> tree,
                                                  url |-> Endpoint(nodeId)])
                  /\ nFetches' = nFetches + 1
             ELSE /\ tree' = updateNode(tree, nodeId,
                                [children |-> << >>, isOpen |-> TRUE, isLoading |-> FALSE])
                  /\ UNCHANGED <<pending, nFetches>>
        ELSE /\ tree' = updateNode(tree, nodeId, [isOpen |-> TRUE])
             /\ UNCHANGED <<pending, nFetches>>

\* page.tsx line 258: the Sidebar's onViewSelected prop is the page's
\* handleModelViewSelect, so a call of it is an invocation of the poller in
\* the same event; the invocation takes the next slot of cycles, one no
\* earlier invocation has used
onViewSelected(type, viewGuid, itemUrn) ==
    /\ latest < MaxCycles
    /\ handleModelViewSelect(latest + 1, [viewGuid |-> viewGuid, itemUrn |-> itemUrn])

handleNodeClick_togglesViews(path) ==
    LET node == NodeAt(tree, path)
    IN  /\ ~loading
        /\ path \in Rendered(tree, <<>>)
        /\ nClicks' = nClicks + 1
        /\ toggleNode(node.id)
        /\ UNCHANGED <<loading, firstKids, viewCalls>>
        /\ UNCHANGED pollVars

\* lines 257-264: a click on the rendered node at path.  viewCalls records the
\* arguments of each onViewSelected call.
handleNodeClick(path) ==
    LET node == NodeAt(tree, path)
    IN  /\ ~loading
        /\ path \in Rendered(tree, <<>>)
        /\ nClicks' = nClicks + 1
        /\ IF node.type = "view"
           THEN /\ viewCalls' = Append(viewCalls, <<node.id[1], node.id[2], node.parent>>)
                /\ onViewSelected(node.id[1], node.id[2], node.parent)
                /\ UNCHANGED <<tree, pending, nFetches>>
           ELSE /\ toggleNode(node.id)
                /\ UNCHANGED viewCalls
                /\ UNCHANGED pollVars
        /\ UNCHANGED <<loading, firstKids>>

childrenFetchOk_staysLoading(k) ==
    LET p == pending[k]
        children == ChildrenOf(p.nodeId)
    IN  /\ tree' = updateNode(p.snap, p.nodeId, [children |-> children, isOpen |-> TRUE])
        /\ pending' = RemoveAt(pending, k)
        /\ firstKids' = IF p.nodeId \in DOMAIN firstKids THEN firstKids
                        ELSE MapSet(firstKids, p.nodeId, IdsOf(children))
        /\ UNCHANGED <<loading, nClicks, nFetches, viewCalls>>

\* lines 135-239: the fetch of pending[k] is answered ok
childrenFetchOk(k) ==
    LET p == pending[k]
        children == ChildrenOf(p.nodeId)
    IN  /\ tree' = updateNode(p.snap, p.nodeId,
                      [children |-> children, isOpen |-> TRUE, isLoading |-> FALSE])
        /\ pending' = RemoveAt(pending, k)
        /\ firstKids' = IF p.nodeId \in DOMAIN firstKids THEN firstKids
                        ELSE MapSet(firstKids, p.nodeId, IdsOf(children))
        /\ UNCHANGED <<loading, nClicks, nFetches, viewCalls>>

\* lines 136-216, 240-244: the fetch of pending[k] is answered not ok: a version
\* node gets the error child, any other node the catch block
childrenFetchNotOk(k) ==
    LET p == pending[k]
    IN  /\ tree' = IF p.nodeId[1] = "version"
                   THEN updateNode(p.snap, p.nodeId,
                           [children |-> ErrorChildren, isOpen |-> TRUE, isLoading |-> FALSE])
                   ELSE updateNode(p.snap, p.nodeId, [isLoading |-> FALSE])
        /\ pending' = RemoveAt(pending, k)
        /\ UNCHANGED <<loading, nClicks, nFetches, firstKids, viewCalls>>

\* lines 135-204, 240-244: the fetch of pending[k] rejects; the catch block runs
childrenFetchRejects(k) ==
    LET p == pending[k]
    IN  /\ tree' = updateNode(p.snap, p.nodeId, [isLoading |-> FALSE])
        /\ pending' = RemoveAt(pending, k)
        /\ UNCHANGED <<loading, nClicks, nFetches, firstKids, viewCalls>>

(***************************************************************************)
(* SpecNav: a session of the sidebar: the hubs arrive, the user clicks     *)
(* rendered nodes, and the children fetches are answered in any order.     *)
(* A click on a view row starts a poll cycle of the page in the same step; *)
(* the page's requests are answered and its timers fire as in Spec.        *)
(***************************************************************************)
InitNav == InitPage /\ InitMergeIdle /\ InitNavIdle /\ InitUrnIdle /\ InitAuthIdle

HubsOk == fetchHubsOk /\ UNCHANGED pollVars /\ UNCHANGED mergeVars
    /\ UNCHANGED urnVars /\ UNCHANGED authVars

HubsFail == fetchHubsFails /\ UNCHANGED pollVars /\ UNCHANGED mergeVars
    /\ UNCHANGED urnVars /\ UNCHANGED authVars

Click ==
    \E path \in Rendered(tree, <<>>) :
        /\ nClicks < MaxClicks
        /\ handleNodeClick(path)
        /\ Len(pending') <= MaxPending
        /\ UNCHANGED mergeVars /\ UNCHANGED urnVars /\ UNCHANGED authVars

ChildrenOk ==
    \E k \in 1..Len(pending) :
        childrenFetchOk(k) /\ UNCHANGED pollVars /\ UNCHANGED mergeVars
            /\ UNCHANGED urnVars /\ UNCHANGED authVars

ChildrenNotOk ==
    \E k \in 1..Len(pending) :
        childrenFetchNotOk(k) /\ UNCHANGED pollVars /\ UNCHANGED mergeVars
            /\ UNCHANGED urnVars /\ UNCHANGED authVars

ChildrenReject ==
    \E k \in 1..Len(pending) :
        childrenFetchRejects(k) /\ UNCHANGED pollVars /\ UNCHANGED mergeVars
            /\ UNCHANGED urnVars /\ UNCHANGED authVars

\* with the page's side of the session: the requests of the poll cycles the
\* view clicks started are answered, their timers fire, an error is dismissed
NextNav == HubsOk \/ HubsFail \/ Click \/ ChildrenOk \/ ChildrenNotOk \/ ChildrenReject
    \/ NotOk \/ Rejects \/ Ready \/ Processing \/ Timer \/ Dismiss

SpecNav == InitNav /\ [][NextNav]_vars

(***************************************************************************)
(* SpecVersions: the same session from the moment the user has expanded    *)
(* hub h1, project p1 and item i1, each fetch answered ok, so that the      *)
(* versions of the item are on screen; the counters count from there.       *)
(***************************************************************************)
\* lines 233-239 for an ok answer, applied to nodes
Loaded(nodes, nodeId) ==
    updateNode(nodes, nodeId,
               [children |-> ChildrenOf(nodeId), isOpen |-> TRUE, isLoading |-> FALSE])

HubsShown ==
    sortNodesByName([i \in 1..Len(ApiHubs) |->
        TreeNode(<<"hub", ApiHubs[i].id>>, ApiHubs[i].name, "hub", <<>>)])

VersionsShown ==
    Loaded(Loaded(Loaded(HubsShown, <<"hub", "h1">>), <<"project", "h1", "p1">>),
           <<"item", "h1", "p1", "i1">>)

InitVersions ==
    /\ InitPage /\ InitMergeIdle /\ InitUrnIdle /\ InitAuthIdle
    /\ tree = VersionsShown
    /\ loading = FALSE
    /\ pending = << >>
    /\ nClicks = 0
    /\ nFetches = 0
    /\ firstKids = MapSet(MapSet(MapSet(EmptyMap,
                      <<"hub", "h1">>, IdsOf(ChildrenOf(<<"hub", "h1">>))),
                      <<"project", "h1", "p1">>, IdsOf(ChildrenOf(<<"project", "h1", "p1">>))),
                      <<"item", "h1", "p1", "i1">>, IdsOf(ChildrenOf(<<"item", "h1", "p1", "i1">>)))
    /\ viewCalls = << >>

\* a click, of at most MaxVersionClicks from the start of this specification
ClickVersions ==
    \E path \in Rendered(tree, <<>>) :
        /\ nClicks < MaxVersionClicks
        /\ handleNodeClick(path)
        /\ Len(pending') <= MaxPending
        /\ UNCHANGED mergeVars /\ UNCHANGED urnVars /\ UNCHANGED authVars

NextVersions == ClickVersions \/ ChildrenOk \/ ChildrenNotOk \/ ChildrenReject
    \/ NotOk \/ Rejects \/ Ready \/ Processing \/ Timer \/ Dismiss

SpecVersions == InitVersions /\ [][NextVersions]_vars

(***************************************************************************)
(* SpecUrn: the escaping of a URN on its way through a request path: the   *)
(* client escapes it (page.tsx line 166, projectSidebar.tsx line 203), the *)
(* route unescapes it before the gateway call (route.ts line 65), and the  *)
(* client escapes what the route passed on.  The URN is any text of the    *)
(* characters below that has a "/".                                        *)
(***************************************************************************)
UrnChars == {"a", "/", "%", "2", "F"}

Urns ==
    { urn \in UNION { [1..n -> UrnChars] : n \in 1..MaxUrnLen } :
        \E i \in 1..Len(urn) : urn[i] = "/" }

Last(seq) == seq[Len(seq)]

InitUrn ==
    /\ InitPage /\ InitMergeIdle /\ InitNavIdle /\ InitAuthIdle
    /\ \E urn \in Urns : urnTrail = << urn >>

\* const encodedUrn = itemUrn.replace("/", "%2F")
clientEncodes ==
    /\ Len(urnTrail) \in {1, 3}
    /\ urnTrail' = Append(urnTrail, encodeUrn(Last(urnTrail)))

\* const decodedVersionId = version_id.replace("%2F", "/")
routeDecodes ==
    /\ Len(urnTrail) = 2
    /\ urnTrail' = Append(urnTrail, decodeUrn(Last(urnTrail)))

ClientEncodes ==
    /\ clientEncodes
    /\ UNCHANGED pollVars /\ UNCHANGED mergeVars /\ UNCHANGED navVars /\ UNCHANGED authVars

RouteDecodes ==
    /\ routeDecodes
    /\ UNCHANGED pollVars /\ UNCHANGED mergeVars /\ UNCHANGED navVars /\ UNCHANGED authVars

NextUrn == ClientEncodes \/ RouteDecodes

SpecUrn == InitUrn /\ [][NextUrn]_vars

(***************************************************************************)
(* auth.ts: getAuthTokens, called once on every cookie store within the    *)
(* bounds, with everything refreshTokens can do.                           *)
(*                                                                         *)
(* A cookie is [present, value]; value is its text.  A text that may be    *)
(* empty stands for a missing field too where the code reads it only       *)
(* through its truthiness.                                                 *)
(***************************************************************************)
\* Date.now() at the call
Now == 50

Cookie(value) == [present |-> TRUE, value |-> value]

DigitValue(ch) ==
    CASE ch = "0" -> 0 [] ch = "1" -> 1 [] ch = "2" -> 2 [] ch = "3" -> 3 [] ch = "4" -> 4
      [] ch = "5" -> 5 [] ch = "6" -> 6 [] ch = "7" -> 7 [] ch = "8" -> 8 [] ch = "9" -> 9
      [] OTHER -> -1

DigitChar(d) ==
    CASE d = 0 -> "0" [] d = 1 -> "1" [] d = 2 -> "2" [] d = 3 -> "3" [] d = 4 -> "4"
      [] d = 5 -> "5" [] d = 6 -> "6" [] d = 7 -> "7" [] d = 8 -> "8" [] OTHER -> "9"

\* NaN; the texts parsed here give no negative number
NaN == -1

\* parseInt(text): the number its leading digits spell, NaN when it has none
RECURSIVE ParseFrom(_, _, _)
ParseFrom(text, i, acc) ==
    IF i > Len(text) \/ DigitValue(text[i]) < 0 THEN acc
    ELSE ParseFrom(text, i + 1, (IF acc = NaN THEN 0 ELSE acc * 10) + DigitValue(text[i]))

parseInt(text) == ParseFrom(text, 1, NaN)

isNaN(n) == n = NaN

\* n.toString() of a natural number
RECURSIVE toString(_)
toString(n) ==
    IF n < 10 THEN << DigitChar(n) >> ELSE Append(toString(n \div 10), DigitChar(n % 10))

\* Math.round(n / d), d > 0: the nearest integer, a half rounded up
RoundDiv(n, d) == (2 * n + d) \div (2 * d)

\* cookieStore.get(name)?.value is falsy: no cookie, or an empty text
Falsy(cookie) == ~cookie.present \/ cookie.value = << >>

ReturnsNull == [kind |-> "null", internalToken |-> NoToken, publicToken |-> NoToken]
Throws == [kind |-> "throws", internalToken |-> NoToken, publicToken |-> NoToken]

Token(access_token, expires_at) ==
    [access_token |-> access_token, expires_in |-> RoundDiv(expires_at - Now, 1000)]

Returns(internal_token, public_token, expires_at) ==
    [kind |-> "tokens",
     internalToken |-> Token(internal_token, expires_at),
     publicToken |-> Token(public_token, expires_at)]

\* what refreshTokens does: it throws, or resolves with null or with tokens,
\* of which any field may be missing (empty text, 0)
RefreshOutcomes ==
    [kind : {"throws", "null"}, public_token : {<< >>}, internal_token : {<< >>},
     refresh_token : {<< >>}, expires_at : {0}]
    \cup
    [kind : {"tokens"}, public_token : {<< >>, <<"P", "2">>},
     internal_token : {<< >>, <<"I", "2">>}, refresh_token : {<< >>, <<"R", "2">>},
     expires_at : {0, 99}]

Incomplete(tokens) ==
    \/ tokens.kind = "null"
    \/ tokens.public_token = << >>
    \/ tokens.internal_token = << >>
    \/ tokens.refresh_token = << >>
    \/ tokens.expires_at = 0

\* lines 15-114; tokens: what refreshTokens does if it is called
getAuthTokens(tokens) ==
    LET refreshToken == cookieStore["refresh_token"]
        expiresAt == cookieStore["expires_at"]
        expiresAtNum == parseInt(expiresAt.value)
    IN  IF Falsy(refreshToken) \/ Falsy(expiresAt)
        THEN authRes' = ReturnsNull /\ UNCHANGED cookieStore
        ELSE IF isNaN(expiresAtNum)
        THEN authRes' = ReturnsNull /\ UNCHANGED cookieStore
        ELSE IF expiresAtNum < Now
        THEN IF tokens.kind = "throws" \/ Incomplete(tokens)
             THEN authRes' = ReturnsNull /\ UNCHANGED cookieStore
             ELSE /\ cookieStore' =
                        [public_token |-> Cookie(tokens.public_token),
                         internal_token |-> Cookie(tokens.internal_token),
                         refresh_token |-> Cookie(tokens.refresh_token),
                         expires_at |-> Cookie(toString(tokens.expires_at))]
                  /\ authRes' = Returns(tokens.internal_token, tokens.public_token,
                                        tokens.expires_at)
        ELSE /\ authRes' =
                    IF /\ cookieStore["internal_token"].present
                       /\ cookieStore["public_token"].present
                    THEN Returns(cookieStore["internal_token"].value,
                                 cookieStore["public_token"].value,
                                 parseInt(expiresAt.value))
                    ELSE Throws
             /\ UNCHANGED cookieStore

CookieChars == {"1", "9", "x"}

CookieTexts == UNION { [1..n -> CookieChars] : n \in 0..MaxCookieLen }

CookieStores ==
    [refresh_token : {NoCookie, Cookie(<< >>), Cookie(<<"R", "1">>)},
     expires_at : {NoCookie} \cup {Cookie(text) : text \in CookieTexts},
     internal_token : {NoCookie, Cookie(<<"I", "1">>)},
     public_token : {NoCookie, Cookie(<<"P", "1">>)}]

InitAuth ==
    /\ InitPage /\ InitMergeIdle /\ InitNavIdle /\ InitUrnIdle
    /\ cookieStore \in CookieStores
    /\ authRes = NotCalled

GetAuthTokens ==
    \E tokens \in RefreshOutcomes :
        /\ authRes = NotCalled
        /\ getAuthTokens(tokens)
        /\ UNCHANGED pollVars /\ UNCHANGED mergeVars /\ UNCHANGED navVars /\ UNCHANGED urnVars

NextAuth == GetAuthTokens

SpecAuth == InitAuth /\ [][NextAuth]_vars


(***************************************************************************)
(* Operators the claims are stated with                                    *)
(***************************************************************************)
\* every node of a forest, at any depth
RECURSIVE NodesOf(_)
NodesOf(objects) ==
    UNION { {objects[i]} \cup NodesOf(objects[i].objects) : i \in 1..Len(objects) }

\* a forest with every properties field removed
RECURSIVE Stripped(_)
Stripped(objects) ==
    [i \in 1..Len(objects) |->
        [objects[i] EXCEPT !.properties = Absent, !.objects = Stripped(objects[i].objects)]]

\* the selection an invocation was made with
SelectionOf(c) == CHOOSE sel \in Selections : sel.viewGuid = cycles[c].viewGuid

\* the step is one of invocation c and ends it
Ends(c) == Active(c) /\ cycles'[c].pc \in Ended

\* the step restarts slot c with a new invocation
Restarts(c) == /\ cycles'[c].pc = "fetching"
               /\ cycles'[c].requests = 1
               /\ cycles'[c].attempts = 0
               /\ cycles'[c].lastStatus = 0

(***************************************************************************)
(* Readiness poller                                                        *)
(***************************************************************************)
\* C1 (as claimed): when an invocation that is no longer the latest one ends,
\* by success or by failure, it leaves properties, objectTree, error and
\* isLoading as they are.
C1_StaleOutcomeSuppressed ==
    [][\A c \in Slots :
          (Ends(c) /\ c # latest) => UNCHANGED <<properties, objectTree, error, isLoading>>]_vars

\* C2 (as claimed): at most one poll cycle is active in every reachable state.
C2_AtMostOneActiveCycle == Cardinality({c \in Slots : Active(c)}) <= 1

\* C3: a cycle that got k < 150 "processing" answers and then a "ready" one has
\* issued exactly k + 1 requests, and the page holds the property list and the
\* object tree of that answer, is not loading and shows no error.
C3_PollerSuccess ==
    cycles[1].pc = "success" =>
        /\ cycles[1].processing < maxAttempts
        /\ cycles[1].requests = cycles[1].processing + 1
        /\ properties = GatewayCollection(SelectionOf(1).itemUrn, SelectionOf(1).viewGuid)
        /\ Stripped(objectTree) = GatewayObjects(SelectionOf(1).itemUrn, SelectionOf(1).viewGuid)
        /\ isLoading = FALSE
        /\ error = NoError

C3_Witness ==
    /\ cycles[1].pc = "success"
    /\ cycles[1].processing = maxAttempts - 1
    /\ properties # <<>>

\* C4: a cycle never issues more than 150 requests; one that got 150
\* "processing" answers ends in timeout having issued exactly 150, with the
\* timeout message set and loading false; and no step of a cycle other than
\* its success stores properties or an object tree.
C4_PollerTimeout ==
    /\ [](/\ cycles[1].requests <= maxAttempts
          /\ cycles[1].pc = "timeout" <=>
                (cycles[1].processing = maxAttempts /\ cycles[1].pc # "sleeping")
          /\ cycles[1].pc = "timeout" => (cycles[1].requests = maxAttempts /\ ~isLoading))
    /\ [][(Active(1) /\ cycles'[1].pc = "timeout") =>
              (error' = TimeoutMsg /\ isLoading' = FALSE)]_vars
    /\ [][(Active(1) /\ cycles'[1].pc # "success") => UNCHANGED <<properties, objectTree>>]_vars

C4_Witness ==
    /\ cycles[1].pc = "timeout"
    /\ cycles[1].requests = maxAttempts
    /\ error = TimeoutMsg

\* C5: the step in which a cycle receives a response that is not ok, at any
\* attempt, ends the cycle with the error message set and loading false,
\* issues no request and leaves properties and objectTree alone; and an ended
\* cycle issues no request.
C5_TransportNotRetried ==
    /\ [][(cycles[1].pc = "fetching" /\ cycles'[1].lastStatus \notin {0, 200}) =>
              /\ cycles'[1].pc = "transport"
              /\ cycles'[1].requests = cycles[1].requests
              /\ error' = FailedMsg(cycles'[1].lastStatus)
              /\ isLoading' = FALSE
              /\ UNCHANGED <<properties, objectTree>>]_vars
    /\ [][cycles[1].pc = "transport" => (cycles'[1] = cycles[1] \/ Restarts(1))]_vars

C5_Witness ==
    /\ cycles[1].pc = "transport"
    /\ cycles[1].lastStatus = 500
    /\ cycles[1].attempts > 0
    /\ error = FailedMsg(500)
    /\ properties # <<>>

\* C6: while a cycle has only had "processing" answers the route has made no
\* getObjectTree call for it, and a cycle that succeeded has had exactly one
\* made, on its last request.
C6_TreeFetchedOnceAfterReadiness ==
    /\ Active(1) => cycles[1].treeCalls = 0
    /\ cycles[1].pc = "success" =>
          (cycles[1].treeCalls = 1 /\ cycles[1].requests = cycles[1].processing + 1)

C6_Witness ==
    /\ cycles[1].pc = "success"
    /\ cycles[1].processing > 1
    /\ cycles[1].treeCalls = 1

(***************************************************************************)
(* Tree/property merge                                                     *)
(***************************************************************************)
\* the route answered with data: tokens found, both gateway calls succeeded,
\* processing complete
Merged == mRes.status = 200 /\ ~mRes.isProcessing

\* C7: after the merge a node at any depth has a properties field iff some
\* record of the list has its objectid, and the field is then the properties
\* of a record with that objectid; this holds below matching and non-matching
\* parents alike.
C7_MergeCorrect ==
    Merged =>
        /\ Stripped(mRes.objectTreeWithProperties) = mTree
        /\ \A node \in NodesOf(mRes.objectTreeWithProperties) :
              LET recs == {i \in 1..Len(mProps) : mProps[i].objectid = node.objectid}
              IN  /\ (node.properties # Absent) <=> (recs # {})
                  /\ recs # {} => \E i \in recs : node.properties = mProps[i].properties

C7_Witness ==
    /\ Merged
    /\ \E node \in NodesOf(mRes.objectTreeWithProperties) :
          /\ node.properties = Absent
          /\ \E child \in NodesOf(node.objects) : child.properties # Absent
    /\ \E node \in NodesOf(mRes.objectTreeWithProperties) :
          /\ node.properties # Absent
          /\ \E child \in NodesOf(node.objects) : child.properties # Absent

\* C8: a node whose objectid several records have gets the properties of the
\* last of them in the list's order.
C8_LastWriteWins ==
    Merged =>
        \A node \in NodesOf(mRes.objectTreeWithProperties) :
            LET recs == {i \in 1..Len(mProps) : mProps[i].objectid = node.objectid}
            IN  recs # {} =>
                    node.properties =
                        mProps[CHOOSE i \in recs : \A j \in recs : j <= i].properties

C8_Witness ==
    /\ Merged
    /\ \E i, j \in 1..Len(mProps) :
          /\ i < j
          /\ mProps[i].objectid = mProps[j].objectid
          /\ mProps[i].properties # mProps[j].properties
          /\ \E node \in NodesOf(mRes.objectTreeWithProperties) :
                node.objectid = mProps[i].objectid /\ node.properties = mProps[j].properties

\* C9: when tokens are found and both gateway calls succeed with processing
\* complete, the route answers 200 with isProcessing false also for an empty
\* object tree (the enriched tree is then empty) and for an empty property list
\* (the enriched tree is then the object tree, no node with properties).
C9_EmptyInputsNoError ==
    (mCall.tokens /\ mCall.apMode = "ready" /\ ~mCall.otThrows) =>
        /\ Merged
        /\ mRes.properties = mProps
        /\ mTree = <<>> => mRes.objectTreeWithProperties = <<>>
        /\ mProps = <<>> => mRes.objectTreeWithProperties = mTree

C9_Witness ==
    /\ mCall.tokens /\ mCall.apMode = "ready" /\ ~mCall.otThrows
    /\ mProps = <<>>
    /\ Len(mTree) = 1 /\ Len(mTree[1].objects) = 2
    /\ Merged

(***************************************************************************)
(* Lazy navigation tree                                                    *)
(***************************************************************************)
\* the step issues a children fetch for the node id
FetchIssuedFor(id) ==
    /\ Len(pending') = Len(pending) + 1
    /\ pending'[Len(pending')].nodeId = id

\* the step handles a click
IsClick == nClicks' = nClicks + 1

\* the node id is in the tree, open
Expanded(id) ==
    LET found == findNode(tree, id) IN found # << >> /\ found[1].isOpen

\* the node id is in the tree, closed and not loading, and holds the children
\* of its first expansion
Collapsed(id) ==
    LET found == findNode(tree, id)
    IN  /\ id \in DOMAIN firstKids
        /\ found # << >>
        /\ ~found[1].isOpen
        /\ ~found[1].isLoading
        /\ IdsOf(found[1].children) = firstKids[id]

\* C10 (as claimed): a click issues no fetch for a node that is expanded, and
\* none for a node that was expanded and then collapsed; the click that
\* re-expands a collapsed node shows the children of its first expansion, in
\* the same order.
C10_LazyExpandIdempotent ==
    [][\A id \in DOMAIN firstKids :
          /\ (IsClick /\ Expanded(id)) => ~FetchIssuedFor(id)
          /\ (IsClick /\ Collapsed(id)) =>
                /\ ~FetchIssuedFor(id)
                /\ LET after == findNode(tree', id)
                   IN  (after # << >> /\ after[1].isOpen) =>
                          IdsOf(after[1].children) = firstKids[id]]_vars

\* the step answers a children fetch of the node id ok
FetchSucceededFor(id) ==
    \E k \in 1..Len(pending) : pending[k].nodeId = id /\ childrenFetchOk(k)

\* C11 (as claimed): once a successful fetch has populated a node's children,
\* with an empty list or not, no click issues another fetch for that node and
\* no second fetch of its children succeeds.
C11_FetchOnceCacheForever ==
    [][\A id \in DOMAIN firstKids :
          /\ IsClick => ~FetchIssuedFor(id)
          /\ ~FetchSucceededFor(id)]_vars

\* C12 (as claimed): no node has two children fetches outstanding together,
\* and a click on a node that is loading issues no fetch and leaves the tree
\* and the outstanding fetches as they are.
C12_LoadingClickIgnored ==
    /\ [](\A i, j \in 1..Len(pending) : pending[i].nodeId = pending[j].nodeId => i = j)
    /\ [][\A path \in Rendered(tree, <<>>) :
             (NodeAt(tree, path).isLoading /\ handleNodeClick(path)) =>
                 UNCHANGED <<tree, pending, nFetches, viewCalls>>]_vars

\* the step answers the outstanding fetch pending[k]
Completes(k) == pending' = RemoveAt(pending, k)

\* the fields of a node that the completion of its fetch writes
OwnFields(node) ==
    [children |-> node.children, isOpen |-> node.isOpen, isLoading |-> node.isLoading]

\* the step changes, in the tree as it is now, the node id and nothing else
ChangesOnly(id) ==
    LET after == findNode(tree', id)
    IN  after # << >> /\ tree' = updateNode(tree, id, OwnFields(after[1]))

\* C13 (as claimed): the completion of a node's fetch, ok or not, changes that
\* node only: every other node keeps the children, open flag and loading flag
\* it has when the completion arrives, whatever was clicked or answered since
\* the fetch was issued.
C13_ExpansionsIndependent ==
    [][\A k \in 1..Len(pending) : Completes(k) => ChangesOnly(pending[k].nodeId)]_vars

\* the node types whose failed fetch runs the catch block
Throwing == {"hub", "project", "folder", "item"}

\* the step answers pending[k] with a failure: a response that is not ok, or
\* a rejected request
Fails(k) == childrenFetchNotOk(k) \/ childrenFetchRejects(k)

\* C14 (as claimed): when the children fetch of a hub, project, folder or item
\* node fails, the node ends not loading and not open with the children it had,
\* no other node changes, and a click on a closed node without children
\* fetches again.
C14_ExpansionErrorLocal ==
    [][/\ \A k \in 1..Len(pending) :
             (pending[k].nodeId[1] \in Throwing /\ Fails(k)) =>
                 LET id == pending[k].nodeId
                     before == findNode(tree, id)
                     after == findNode(tree', id)
                 IN  /\ before # << >> /\ after # << >>
                     /\ ~after[1].isLoading /\ ~after[1].isOpen
                     /\ after[1].children = before[1].children
                     /\ ChangesOnly(id)
       /\ \A path \in Rendered(tree, <<>>) :
             LET node == NodeAt(tree, path)
             IN  (/\ node.type \in Throwing
                  /\ ~node.isOpen /\ ~node.isLoading /\ node.children = << >>
                  /\ handleNodeClick(path)) => FetchIssuedFor(node.id)]_vars

\* C15 (as claimed): when the views request of a version node is answered with
\* a status that is not ok, 404 included, the version node becomes open and
\* not loading with exactly one child, of type error, and no other node
\* changes.
C15_ViewFailureOneErrorChild ==
    [][\A k \in 1..Len(pending) :
          (pending[k].nodeId[1] = "version" /\ childrenFetchNotOk(k)) =>
              LET id == pending[k].nodeId
                  after == findNode(tree', id)
              IN  /\ after # << >>
                  /\ after[1].isOpen /\ ~after[1].isLoading
                  /\ Len(after[1].children) = 1
                  /\ after[1].children[1].type = "error"
                  /\ ChangesOnly(id)]_vars

\* C16 (as claimed): a click on a node of type error issues no fetch, does not
\* call onViewSelected and leaves the whole tree as it is.
C16_ErrorNodeInert ==
    [][\A path \in Rendered(tree, <<>>) :
          (NodeAt(tree, path).type = "error" /\ handleNodeClick(path)) =>
              UNCHANGED <<tree, pending, nFetches, viewCalls>>]_vars

\* nodes with the node at path replaced by node
RECURSIVE ReplaceAt(_, _, _)
ReplaceAt(nodes, path, node) ==
    IF Len(path) = 1 THEN [nodes EXCEPT ![path[1]] = node]
    ELSE [nodes EXCEPT ![path[1]].children = ReplaceAt(@, Tail(path), node)]

\* the version node that owns the node at path
OwnerOf(path) == NodeAt(tree, SubSeq(path, 1, Len(path) - 1))

\* C17 (as claimed): a click on a view node calls onViewSelected once with
\* "view", the node's guid and the URN of the version that owns it, and leaves
\* the tree alone; a click on a node of another type does not call
\* onViewSelected and changes nothing but the open and loading flags of the
\* node clicked.
C17_OnlyViewsSelectable ==
    [][\A path \in Rendered(tree, <<>>) :
          handleNodeClick(path) =>
              LET node == NodeAt(tree, path)
              IN  IF node.type = "view"
                  THEN /\ viewCalls' = Append(viewCalls, <<"view", node.id[2], node.parent>>)
                       /\ node.parent = btoa(OwnerOf(path).id[2])
                       /\ UNCHANGED <<tree, pending, nFetches>>
                  ELSE /\ UNCHANGED viewCalls
                       /\ \E o, l \in BOOLEAN :
                             tree' = ReplaceAt(tree, path,
                                        [node EXCEPT !.isOpen = o, !.isLoading = l])]_vars

\* every node of the navigation tree, at any depth
RECURSIVE TreeNodes(_)
TreeNodes(nodes) ==
    UNION { {nodes[i]} \cup TreeNodes(nodes[i].children) : i \in 1..Len(nodes) }

\* C18: in every reachable tree a node of type view has no children and is
\* neither open nor loading.
C18_ViewNodesAreLeaves ==
    \A node \in TreeNodes(tree) :
        node.type = "view" => (node.children = << >> /\ ~node.isOpen /\ ~node.isLoading)

C18_Witness ==
    /\ \E node \in TreeNodes(tree) : node.type = "view"
    /\ viewCalls # << >>

(***************************************************************************)
(* URN escaping                                                            *)
(***************************************************************************)
\* C19 (as claimed): for every URN that has a "/", also one with several "/"
\* or with the text "%2F" in it, decode(encode(urn)) is the URN and
\* encode(decode(encode(urn))) is encode(urn).
C19_UrnRoundTrip ==
    /\ Len(urnTrail) >= 3 => urnTrail[3] = urnTrail[1]
    /\ Len(urnTrail) >= 4 => urnTrail[4] = urnTrail[2]

(***************************************************************************)
(* Results of an earlier selection                                         *)
(***************************************************************************)
\* C20 (as claimed): from the start of a poll cycle until that cycle succeeds
\* the page holds no results: properties and objectTree are empty while the
\* cycle is in flight, after it ended in a timeout or a transport error, and
\* after that error was dismissed.
C20_NewSelectionDiscardsResults ==
    cycles[1].pc \in InFlight \cup {"timeout", "transport"} =>
        (properties = << >> /\ objectTree = << >>)

(***************************************************************************)
(* Failures of the poller                                                  *)
(***************************************************************************)
Failed == {"timeout", "transport"}

\* C21: the step that ends a cycle in timeout or transport error sets the
\* error and clears loading, and loading stays false while the cycle is ended;
\* a step that clears the error without starting a cycle (Dismiss) changes
\* nothing else; and the next step of an ended cycle's slot is a fresh cycle:
\* error cleared, loading true, attempts 0, one request issued.
C21_PollFailureRecoverable ==
    /\ [](cycles[1].pc \in Failed => ~isLoading)
    /\ [][(Active(1) /\ cycles'[1].pc \in Failed) =>
              (error' # NoError /\ isLoading' = FALSE)]_vars
    /\ [][(error # NoError /\ error' = NoError /\ ~Restarts(1)) =>
              UNCHANGED <<isLoading, properties, objectTree, selectedVersionId,
                          cycles, latest>>]_vars
    /\ [][(cycles[1].pc \in Failed /\ cycles'[1] # cycles[1]) =>
              /\ Restarts(1)
              /\ error' = NoError
              /\ isLoading' = TRUE]_vars

\* a failed cycle whose error was dismissed, with the results of an earlier
\* cycle still there
C21_Witness ==
    /\ cycles[1].pc = "timeout"
    /\ error = NoError
    /\ ~isLoading
    /\ properties # << >>

(***************************************************************************)
(* Credentials                                                             *)
(***************************************************************************)
\* the cookie is missing
Missing(name) == ~cookieStore[name].present

\* C22 (as claimed): a call of getAuthTokens never throws; it returns null or
\* both tokens; and it returns null when the refresh_token or the expires_at
\* cookie is missing, when expires_at is not a number, and when the tokens
\* have not expired and the internal_token or the public_token cookie is
\* missing.
C22_AuthTokensOrNull ==
    [][(authRes = NotCalled /\ authRes' # NotCalled) =>
          /\ authRes'.kind \in {"null", "tokens"}
          /\ authRes'.kind = "tokens" =>
                (authRes'.internalToken.access_token # << >>
                 /\ authRes'.publicToken.access_token # << >>)
          /\ (Missing("refresh_token") \/ Missing("expires_at")) => authRes'.kind = "null"
          /\ (~Missing("expires_at") /\ isNaN(parseInt(cookieStore["expires_at"].value)))
                => authRes'.kind = "null"
          /\ (/\ ~Missing("expires_at")
              /\ parseInt(cookieStore["expires_at"].value) >= Now
              /\ (Missing("internal_token") \/ Missing("public_token")))
                => authRes'.kind = "null"]_vars

(***************************************************************************)
(* Expansion of a node                                                     *)
(***************************************************************************)
\* a node of a fetching type that no fetch has populated: closed, not
\* loading, without children
NeverExpanded(node) ==
    /\ node.type \in Fetching
    /\ ~node.isOpen /\ ~node.isLoading /\ node.children = << >>
    /\ node.id \notin DOMAIN firstKids

\* the URL is the one of the node's type: the projects of the hub, the top
\* contents of the project, the contents of the folder, the versions of the
\* item, the views of the version
RightEndpoint(node, url) ==
    LET id == node.id
        path == url.path
        n == Len(path)
    IN  CASE node.type = "hub" ->
               path[n] = "projects" /\ path[n - 1] = id[2]
          [] node.type = "project" ->
               path[n] = "contents" /\ path[n - 1] = id[3] /\ path[n - 3] = id[2]
          [] node.type = "folder" ->
               /\ path[n] = id[4] /\ path[n - 1] = "?folder_id=" /\ path[n - 2] = "contents"
               /\ path[n - 3] = id[3] /\ path[n - 5] = id[2]
          [] node.type = "item" ->
               /\ path[n] = "versions" /\ path[n - 1] = id[4] /\ path[n - 2] = "contents"
               /\ path[n - 3] = id[3] /\ path[n - 5] = id[2]
          [] node.type = "version" ->
               path[n] = "views" /\ path[n - 1] = Region /\ decodeUrn(url.urn) = btoa(id[2])
          [] OTHER -> FALSE

\* the children are the entries the API has for the node
ResultAttached(id, children) ==
    LET Types == {children[i].type : i \in 1..Len(children)}
        Names(entries) == {entries[i].name : i \in 1..Len(entries)}
        ChildNames == {children[i].name : i \in 1..Len(children)}
    IN  CASE id[1] = "hub" ->
               /\ ChildNames = Names(ApiProjects(id[2]))
               /\ Len(children) = Len(ApiProjects(id[2])) /\ Types \subseteq {"project"}
          [] id[1] = "project" ->
               /\ ChildNames = Names(ApiContents(id[2], id[3], ""))
               /\ Len(children) = Len(ApiContents(id[2], id[3], ""))
               /\ Types \subseteq {"folder", "item"}
          [] id[1] = "folder" ->
               /\ ChildNames = Names(ApiContents(id[2], id[3], id[4]))
               /\ Len(children) = Len(ApiContents(id[2], id[3], id[4]))
               /\ Types \subseteq {"folder", "item"}
          [] id[1] = "item" ->
               /\ ChildNames = Names(ApiVersions(id[3], id[4]))
               /\ Len(children) = Len(ApiVersions(id[3], id[4])) /\ Types \subseteq {"version"}
          [] id[1] = "version" ->
               ChildNames \subseteq Names(ApiViews(btoa(id[2]))) /\ Types \subseteq {"view"}
          [] OTHER -> FALSE

\* C23: a click on a never-expanded node marks it loading, leaves it closed
\* and issues exactly one fetch, for that node and to the endpoint of its
\* type; the step in which the fetch is answered ok attaches the result as the
\* node's children and leaves the node open and not loading.
C23_ExpandUnexpandedNode ==
    [][/\ \A path \in Rendered(tree, <<>>) :
             LET node == NodeAt(tree, path)
             IN  (NeverExpanded(node) /\ handleNodeClick(path)) =>
                     /\ NodeAt(tree', path).isLoading /\ ~NodeAt(tree', path).isOpen
                     /\ nFetches' = nFetches + 1
                     /\ Len(pending') = Len(pending) + 1
                     /\ Last(pending').nodeId = node.id
                     /\ RightEndpoint(node, Last(pending').url)
       /\ \A k \in 1..Len(pending) :
             childrenFetchOk(k) =>
                 LET after == findNode(tree', pending[k].nodeId)
                 IN  /\ after # << >>
                     /\ after[1].isOpen /\ ~after[1].isLoading
                     /\ ResultAttached(pending[k].nodeId, after[1].children)]_vars

\* a version was expanded down from its hub and shows a view
C23_Witness ==
    \E node \in TreeNodes(tree) :
        /\ node.type = "version" /\ node.isOpen /\ ~node.isLoading
        /\ node.children # << >> /\ node.children[1].type = "view"
        /\ node.id \in DOMAIN firstKids

\* C24: the step in which the views request of a version node is answered ok
\* leaves the node with one child per returned view of role "3d" and no other
\* child: the child of a view has the id of the view's guid, type view and the
\* version's URN as parent.
C24_VersionChildrenAre3dViews ==
    [][\A k \in 1..Len(pending) :
          (pending[k].nodeId[1] = "version" /\ childrenFetchOk(k)) =>
              LET id == pending[k].nodeId
                  versionUrn == btoa(id[2])
                  views == ApiViews(versionUrn)
                  views3d == {i \in 1..Len(views) : views[i].role = "3d"}
                  after == findNode(tree', id)
                  children == after[1].children
              IN  /\ after # << >>
                  /\ Len(children) = Cardinality(views3d)
                  /\ \A i \in views3d :
                        \E j \in 1..Len(children) :
                            /\ children[j].id = <<"view", views[i].guid>>
                            /\ children[j].name = views[i].name
                  /\ \A j \in 1..Len(children) :
                        /\ children[j].type = "view"
                        /\ children[j].parent = versionUrn
                        /\ \E i \in views3d : children[j].id = <<"view", views[i].guid>>]_vars

\* version v1, whose model has a sheet and a 3d view, shows the 3d view alone
C24_Witness ==
    \E node \in TreeNodes(tree) :
        /\ node.id = <<"version", "v1">> /\ node.isOpen
        /\ Len(ApiViews(btoa("v1"))) = 2
        /\ Len(node.children) = 1
        /\ node.children[1].id = <<"view", "g1">>
        /\ node.children[1].parent = btoa("v1")

\* C25: in every state where no children request is in flight, no node of the
\* tree has isLoading set.
C25_NoNodeLoadsForever ==
    pending = << >> => \A node \in TreeNodes(tree) : ~node.isLoading

\* the paths of all nodes of a forest, on screen or not
RECURSIVE Paths(_, _)
Paths(nodes, prefix) ==
    UNION { {Append(prefix, i)} \cup Paths(nodes[i].children, Append(prefix, i)) :
            i \in 1..Len(nodes) }

\* C26: in every reachable tree no two nodes have the same id, the error
\* children of several versions and the view nodes of different versions
\* included.
C26_NodeIdsUnique ==
    \A p, q \in Paths(tree, << >>) :
        p # q => NodeAt(tree, p).id # NodeAt(tree, q).id

\* two forests have the same nodes in the same order, with the same objectid,
\* name and child structure
RECURSIVE SameShape(_, _)
SameShape(a, b) ==
    /\ Len(a) = Len(b)
    /\ \A i \in 1..Len(a) :
          /\ a[i].objectid = b[i].objectid
          /\ a[i].name = b[i].name
          /\ SameShape(a[i].objects, b[i].objects)

\* C27: the enriched tree of a merge has the nodes of the fetched tree, in the
\* same order and with the same objectid, name and children, and the property
\* list in the response is the fetched list as it was.
C27_MergeKeepsShape ==
    Merged =>
        /\ SameShape(mRes.objectTreeWithProperties, mTree)
        /\ mRes.properties = mProps

\* a merge of a tree with nested and sibling nodes in which a child but not
\* its parent got properties
C27_Witness ==
    /\ Merged
    /\ Len(mProps) = 2
    /\ Len(mTree) = 2
    /\ \E i \in 1..2 :
          /\ Len(mTree[i].objects) = 1
          /\ mRes.objectTreeWithProperties[i].properties = Absent
          /\ mRes.objectTreeWithProperties[i].objects[1].properties # Absent

\* C28: when every request is answered and every wait elapses, a poll cycle
\* in flight reaches success, timeout or transport error; it has then issued
\* at most 150 requests, and an ended cycle issues no request.
C28_PollCycleTerminates ==
    /\ (Active(1) ~> (cycles[1].pc \in Ended))
    /\ [](cycles[1].pc \in Ended => cycles[1].requests <= maxAttempts)
    /\ [](Active(1) => cycles[1].requests <= maxAttempts)
    /\ [][cycles[1].pc \in Ended => (cycles'[1] = cycles[1] \/ Restarts(1))]_vars

\* a cycle whose 150th request was answered with an error
C28_Witness ==
    /\ cycles[1].pc = "transport"
    /\ cycles[1].requests = maxAttempts
    /\ cycles[1].lastStatus = 401
    /\ ~isLoading

\* C29: with poll cycles interleaved in any way, the page's properties and
\* objectTree are both empty, as at mount, or are the property list and the
\* enriched tree of one and the same answer, that of a cycle that succeeded.
C29_ResultsFromOneResponse ==
    \/ properties = << >> /\ objectTree = << >>
    \/ \E c \in Slots :
          /\ cycles[c].pc = "success"
          /\ LET res == RouteAnswer(c, TRUE, "ready", FALSE)
             IN  /\ properties = res.properties
                 /\ objectTree = res.objectTreeWithProperties

\* two cycles for different views both succeeded, the older one last: the page
\* holds the older cycle's pair
C29_Witness ==
    /\ cycles[1].pc = "success" /\ cycles[2].pc = "success"
    /\ cycles[1].viewGuid # cycles[2].viewGuid
    /\ latest = 2
    /\ properties = RouteAnswer(1, TRUE, "ready", FALSE).properties
    /\ objectTree = RouteAnswer(1, TRUE, "ready", FALSE).objectTreeWithProperties

\* C30: in every reachable tree no node is open and loading at once.
C30_NeverOpenAndLoading ==
    \A node \in TreeNodes(tree) : ~(node.isOpen /\ node.isLoading)

\* a node expanded by a fetch is open while a node below it is loading
C30_Witness ==
    \E node \in TreeNodes(tree) :
        /\ node.isOpen /\ ~node.isLoading
        /\ node.id \in DOMAIN firstKids
        /\ \E child \in TreeNodes(node.children) : child.isLoading /\ ~child.isOpen
        /\ pending # << >>

====
